---- MODULE Spec2Model ----
(***************************************************************************)
(* Model of extract-important-info.py: the clean-up of a mailbox CSV export *)
(* (labels, date, from, to, cc, subject, body) and its expansion into one  *)
(* row per external contact.  Text is a sequence of one-character strings. *)
(***************************************************************************)
EXTENDS Integers, Sequences, FiniteSets, TLC

VARIABLES raw, emails, pc, i, outfile, err, args, rets

vars == <<raw, emails, pc, i, outfile, err, args, rets>>

mainVars == <<raw, emails, pc, i, outfile, err>>

unitVars == <<args, rets>>

(* ------------------------------ bounds ---------------------------------- *)

MaxFrags == 3

MaxChars == 5

MaxAddrs == 2

MaxRows == 2

(* ------------------------------ text ------------------------------------ *)

\* ./practice-output.csv before to_csv has run
NoFile == [exists |-> FALSE, rows |-> <<>>]

\* no exception has been raised
NoError == [at |-> "", exc |-> "none"]

\* NaN / None: an empty cell of the frame, or the return value of a bare return.
NULL == <<"NULL">>

Max(S) == CHOOSE x \in S : \A y \in S : y <= x

Lower == {"a", "b", "c", "d", "e", "f", "g", "h", "i", "j", "k", "l", "m",
          "n", "o", "p", "q", "r", "s", "t", "u", "v", "w", "x", "y", "z"}

Upper == {"A", "B", "C", "D", "E", "F", "G", "H", "I", "J", "K", "L", "M",
          "N", "O", "P", "Q", "R", "S", "T", "U", "V", "W", "X", "Y", "Z"}

Digits == {"0", "1", "2", "3", "4", "5", "6", "7", "8", "9"}

WordChars == Lower \cup Upper \cup Digits \cup {"_"}

\* \w of the pattern
IsWord(c) == c \in WordChars

\* [\w.+-]
LocalCh(c) == IsWord(c) \/ c \in {".", "+", "-"}

\* [\w-]
DomCh(c) == IsWord(c) \/ c = "-"

\* [\w.-]
TailCh(c) == IsWord(c) \/ c \in {".", "-"}

\* the lengths t >= 1 the trailing [\w.-]+ can take at position p
TailLens(s, p) ==
    {t \in 1..(Len(s) - p + 1) : \A q \in p..(p + t - 1) : TailCh(s[q])}

\* the lengths d >= 1 of [\w-]+ at p after which \.[\w.-]+ matches
DomLens(s, p) ==
    {d \in 1..(Len(s) - p) :
        /\ \A q \in p..(p + d - 1) : DomCh(s[q])
        /\ s[p + d] = "."
        /\ TailLens(s, p + d + 1) # {}}

\* the lengths k >= 1 of [\w.+-]+ at p after which @[\w-]+\.[\w.-]+ matches
LocLens(s, p) ==
    {k \in 1..(Len(s) - p) :
        /\ \A q \in p..(p + k - 1) : LocalCh(s[q])
        /\ s[p + k] = "@"
        /\ DomLens(s, p + k + 1) # {}}

\* The last index of the match of the pattern that starts at p, 0 when there is
\* none.  Every quantifier is greedy: the longest length is tried first.
MatchEnd(s, p) ==
    LET ks == LocLens(s, p)
    IN  IF ks = {} THEN 0
        ELSE LET k == Max(ks)
                 d == Max(DomLens(s, p + k + 1))
                 t == Max(TailLens(s, p + k + d + 2))
             IN  p + k + d + t + 1

\* re.findall: the non-overlapping matches, leftmost first
RECURSIVE findall(_, _)
findall(s, p) ==
    IF p > Len(s) THEN <<>>
    ELSE LET e == MatchEnd(s, p)
         IN  IF e = 0 THEN findall(s, p + 1)
             ELSE <<SubSeq(s, p, e)>> \o findall(s, e + 1)

\* sep.join(parts)
RECURSIVE join(_, _)
join(parts, sep) ==
    IF parts = <<>> THEN <<>>
    ELSE IF Len(parts) = 1 THEN parts[1]
    ELSE parts[1] \o sep \o join(Tail(parts), sep)

\* the matches joined with nothing between them
extractEmails_NoSeparator(emailCol) ==
    IF emailCol = NULL THEN NULL
    ELSE join(findall(emailCol, 1), <<>>)

extractEmails(emailCol) ==
    IF emailCol = NULL THEN NULL
    ELSE join(findall(emailCol, 1), <<";">>)

(* --------------------------- inputs: texts ------------------------------ *)

AddrAB == <<"a", "@", "b", ".", "c", "o", "m">>

AddrCD == <<"c", "@", "d", ".", "c", "o", "m">>

ExtractFrags == {AddrAB, AddrCD, <<";">>, <<" ">>, <<"+">>, <<"<">>, <<"@">>, <<".">>}

ExtractAlphabet == {"a", "@", ".", "-"}

RECURSIVE Concats(_, _)
Concats(F, n) ==
    IF n = 0 THEN {<<>>}
    ELSE LET S == Concats(F, n - 1)
         IN  S \cup {f \o s : f \in F, s \in S}

RECURSIVE Strings(_, _)
Strings(A, n) ==
    IF n = 0 THEN {<<>>}
    ELSE LET S == Strings(A, n - 1)
         IN  S \cup {<<c>> \o s : c \in A, s \in S}

RawTexts == Concats(ExtractFrags, MaxFrags) \cup Strings(ExtractAlphabet, MaxChars)

(* ------------------------ extractEmails, alone -------------------------- *)

InitExtract ==
    /\ args \in {[fn |-> "extractEmails", x |-> t] : t \in RawTexts}
    /\ rets = <<>>
    /\ raw = <<>> /\ emails = <<>> /\ pc = "unit" /\ i = 0
    /\ outfile = NoFile /\ err = NoError

\* extractEmails(x), then extractEmails of what it returned
CallExtract ==
    /\ args.fn = "extractEmails"
    /\ Len(rets) < 2
    /\ rets' = Append(rets, extractEmails(IF rets = <<>> THEN args.x ELSE rets[Len(rets)]))
    /\ UNCHANGED <<args, mainVars>>

NextExtract == CallExtract

SpecExtract == InitExtract /\ [][NextExtract]_vars

(* ------------------------------ dates ----------------------------------- *)

\* What a call returns, or the exception it raises.
Return(v) == [exc |-> "none", val |-> v]

Raise(e) == [exc |-> e, val |-> <<>>]

\* A Date cell the parser cannot read.
Garbage == [garbage |-> TRUE]

\* A Date cell the parser reads: its fields and its zone, NoZone when the
\* text carries none.
NoZone == <<>>

\* What the parser returns for text it cannot read, and the zone element of
\* its tuple when it is None.
None == <<>>

DateText(y, mo, d, h, mi, s, z) ==
    [garbage |-> FALSE, y |-> y, mo |-> mo, d |-> d, h |-> h, mi |-> mi, s |-> s, zone |-> z]

\* email.utils.parsedate_tz: None for text it cannot read, else the ten-tuple
\* whose last element is the zone's offset in seconds, 0 when the text has no
\* zone (the element is written <<n>> here, so that None can be told from it).
parsedate_tz(data) ==
    IF data.garbage THEN None
    ELSE <<data.y, data.mo, data.d, data.h, data.mi, data.s, 0, 1, -1,
           IF data.zone = NoZone THEN <<0>> ELSE data.zone>>

IsLeap(y) == y % 4 = 0 /\ (y % 100 # 0 \/ y % 400 = 0)

DaysInMonth(y, mo) ==
    IF mo = 2 THEN (IF IsLeap(y) THEN 29 ELSE 28)
    ELSE IF mo \in {4, 6, 9, 11} THEN 30 ELSE 31

DaysBeforeYear(y) ==
    (y - 1) * 365 + ((y - 1) \div 4) - ((y - 1) \div 100) + ((y - 1) \div 400)

RECURSIVE DaysBeforeMonth(_, _)
DaysBeforeMonth(y, mo) ==
    IF mo = 1 THEN 0 ELSE DaysBeforeMonth(y, mo - 1) + DaysInMonth(y, mo - 1)

\* datetime.toordinal: 1 for 0001-01-01
toordinal(y, mo, d) == DaysBeforeYear(y) + DaysBeforeMonth(y, mo) + d

\* datetime(y, mo, d, h, mi, s) accepts these fields
FieldsInRange(t) ==
    /\ t[1] \in 1..9999
    /\ t[2] \in 1..12
    /\ t[3] \in 1..DaysInMonth(t[1], t[2])
    /\ t[4] \in 0..23
    /\ t[5] \in 0..59
    /\ t[6] \in 0..59

\* a datetime as (ordinal day, second of the day)
datetime(t) == [days |-> toordinal(t[1], t[2], t[3]), secs |-> t[4] * 3600 + t[5] * 60 + t[6]]

\* dt - timedelta(seconds = off), normalised to 0 <= secs < 86400
\* (\div and % round toward minus infinity, like Python's divmod)
MinusSeconds(dt, off) ==
    LET sres == dt.secs - off
    IN  [days |-> dt.days + (sres \div 86400), secs |-> sres % 86400]

\* the ordinal of 1970-01-01
EpochOrdinal == 719163

\* dt.replace(tzinfo = utc).timestamp(): whole seconds since the epoch
timestamp(dt) == (dt.days - EpochOrdinal) * 86400 + dt.secs

RECURSIVE NatStr(_)
NatStr(n) ==
    LET digit == <<"0", "1", "2", "3", "4", "5", "6", "7", "8", "9">>[(n % 10) + 1]
    IN  IF n < 10 THEN <<digit>> ELSE Append(NatStr(n \div 10), digit)

\* str(int(ts * 1000)) for a whole number of seconds ts: the product is
\* written out in decimal, three zeros after the digits of ts (TLC's
\* integers are 32 bits wide, the product is not)
MillisStr(ts) ==
    IF ts = 0 THEN <<"0">>
    ELSE IF ts < 0 THEN <<"-">> \o NatStr(0 - ts) \o <<"0", "0", "0">>
    ELSE NatStr(ts) \o <<"0", "0", "0">>

getDates_AddsOffset(dateCol) ==
    LET dt_tuple == parsedate_tz(dateCol)
    IN  IF dt_tuple = None THEN Raise("ValueError: Invalid RFC 2822 date format")
        ELSE IF ~FieldsInRange(dt_tuple) THEN Raise("ValueError: out of range")
        ELSE LET dt == datetime(dt_tuple)
                 shifted == IF dt_tuple[10] # None
                            THEN MinusSeconds(dt, 0 - dt_tuple[10][1])
                            ELSE dt
             IN  Return(MillisStr(timestamp(shifted)))

getDates(dateCol) ==
    LET dt_tuple == parsedate_tz(dateCol)
    IN  IF dt_tuple = None THEN Raise("ValueError: Invalid RFC 2822 date format")
        ELSE IF ~FieldsInRange(dt_tuple) THEN Raise("ValueError: out of range")
        ELSE LET dt == datetime(dt_tuple)
                 shifted == IF dt_tuple[10] # None
                            THEN MinusSeconds(dt, dt_tuple[10][1])
                            ELSE dt
             IN  Return(MillisStr(timestamp(shifted)))

(* --------------------------- inputs: dates ------------------------------ *)

Years == {1969, 1970, 2023, 2024}

Months == {1, 2, 3, 12}

Days == {1, 15, 29, 31}

Hours == {0, 16, 23, 25}

Minutes == {0, 40, 59}

Seconds == {0, 42, 59, 60}

Zones == {NoZone, <<0>>, <<3600>>, <<-18000>>, <<19800>>, <<50400>>}

DateTexts ==
    {Garbage} \cup
    {DateText(y, mo, d, h, mi, s, z) :
        y \in Years, mo \in Months, d \in Days, h \in Hours,
        mi \in Minutes, s \in Seconds, z \in Zones}

(* -------------------------- getDates, alone ----------------------------- *)

InitDates ==
    /\ args \in {[fn |-> "getDates", x |-> t] : t \in DateTexts}
    /\ rets = <<>>
    /\ raw = <<>> /\ emails = <<>> /\ pc = "unit" /\ i = 0
    /\ outfile = NoFile /\ err = NoError

CallDates ==
    /\ args.fn = "getDates"
    /\ rets = <<>>
    /\ rets' = <<getDates(args.x)>>
    /\ UNCHANGED <<args, mainVars>>

NextDates == CallDates

SpecDates == InitDates /\ [][NextDates]_vars

(* ----------------------------- contacts --------------------------------- *)

\* the literal 'insidemaps' of getNonDomainEmails
OwnDomainMarker == <<"i", "n", "s", "i", "d", "e", "m", "a", "p", "s">>

\* needle in hay, Python's substring test
Contains(hay, needle) ==
    \E p \in 1..(Len(hay) - Len(needle) + 1) :
        SubSeq(hay, p, p + Len(needle) - 1) = needle

Whitespace == {" ", "\t", "\n", "\r"}

\* s.rstrip()
RECURSIVE rstrip(_)
rstrip(s) ==
    IF s # <<>> /\ s[Len(s)] \in Whitespace THEN rstrip(SubSeq(s, 1, Len(s) - 1)) ELSE s

\* s.split(sep) for a one-character sep: never empty, '' gives ['']
RECURSIVE split(_, _)
split(s, sep) ==
    IF \A p \in 1..Len(s) : s[p] # sep THEN <<s>>
    ELSE LET p == CHOOSE q \in 1..Len(s) : s[q] = sep /\ \A r \in 1..(q - 1) : s[r] # sep
         IN  <<SubSeq(s, 1, p - 1)>> \o split(SubSeq(s, p + 1, Len(s)), sep)

\* the loop  for address in pieces: if marker not in address: append(address.rstrip())
RECURSIVE AppendNonDomain(_, _)
AppendNonDomain(combinedData, pieces) ==
    IF pieces = <<>> THEN combinedData
    ELSE AppendNonDomain(
            IF ~Contains(pieces[1], OwnDomainMarker)
            THEN Append(combinedData, rstrip(pieces[1]))
            ELSE combinedData,
            Tail(pieces))

\* the same loop with a membership test before each append
RECURSIVE AppendNonDomain_Dedup(_, _)
AppendNonDomain_Dedup(combinedData, pieces) ==
    IF pieces = <<>> THEN combinedData
    ELSE AppendNonDomain_Dedup(
            IF /\ ~Contains(pieces[1], OwnDomainMarker)
               /\ \A k \in 1..Len(combinedData) : combinedData[k] # rstrip(pieces[1])
            THEN Append(combinedData, rstrip(pieces[1]))
            ELSE combinedData,
            Tail(pieces))

getNonDomainEmails_CcFirst(fromData, toData, ccData) ==
    IF fromData = NULL THEN Raise("TypeError")
    ELSE IF toData = NULL THEN Raise("AttributeError")
    ELSE LET afterFrom == IF ~Contains(fromData, OwnDomainMarker)
                          THEN <<rstrip(fromData)>> ELSE <<>>
             afterCc == IF ccData # NULL
                        THEN AppendNonDomain(afterFrom, split(ccData, ";"))
                        ELSE afterFrom
         IN  Return(AppendNonDomain(afterCc, split(toData, ";")))

getNonDomainEmails_NoCcCheck(fromData, toData, ccData) ==
    IF fromData = NULL THEN Raise("TypeError")
    ELSE IF toData = NULL \/ ccData = NULL THEN Raise("AttributeError")
    ELSE LET afterFrom == IF ~Contains(fromData, OwnDomainMarker)
                          THEN <<rstrip(fromData)>> ELSE <<>>
             afterTo == AppendNonDomain(afterFrom, split(toData, ";"))
         IN  Return(AppendNonDomain(afterTo, split(ccData, ";")))

getNonDomainEmails_Dedup(fromData, toData, ccData) ==
    IF fromData = NULL THEN Raise("TypeError")
    ELSE IF toData = NULL THEN Raise("AttributeError")
    ELSE LET afterFrom == IF ~Contains(fromData, OwnDomainMarker)
                          THEN <<rstrip(fromData)>> ELSE <<>>
             afterTo == AppendNonDomain_Dedup(afterFrom, split(toData, ";"))
         IN  Return(IF ccData # NULL
                    THEN AppendNonDomain_Dedup(afterTo, split(ccData, ";"))
                    ELSE afterTo)

\* 'insidemaps' not in None raises TypeError, None.split raises AttributeError
getNonDomainEmails(fromData, toData, ccData) ==
    IF fromData = NULL THEN Raise("TypeError")
    ELSE IF toData = NULL THEN Raise("AttributeError")
    ELSE LET afterFrom == IF ~Contains(fromData, OwnDomainMarker)
                          THEN <<rstrip(fromData)>> ELSE <<>>
             afterTo == AppendNonDomain(afterFrom, split(toData, ";"))
         IN  Return(IF ccData # NULL
                    THEN AppendNonDomain(afterTo, split(ccData, ";"))
                    ELSE afterTo)

(* ------------------------- inputs: addresses ---------------------------- *)

DotCom == <<".", "c", "o", "m">>

\* x@insidemaps.com
OwnX == <<"x", "@">> \o OwnDomainMarker \o DotCom

\* z@insidemaps.com
OwnZ == <<"z", "@">> \o OwnDomainMarker \o DotCom

\* y@external.com
ExtY == <<"y", "@", "e", "x", "t", "e", "r", "n", "a", "l">> \o DotCom

\* w@e.co
ExtW == <<"w", "@", "e", ".", "c", "o">>

ContactAddrs == {OwnX, OwnZ, ExtY, ExtW}

RECURSIVE AddrLists(_)
AddrLists(n) ==
    IF n = 0 THEN {<<>>}
    ELSE LET S == AddrLists(n - 1)
         IN  S \cup {<<a>> \o l : a \in ContactAddrs, l \in S}

\* what extractEmails leaves in a cell: addresses joined by ';', or nothing
NormFields(n) == {join(l, <<";">>) : l \in AddrLists(n)} \cup {NULL}

FromFields == NormFields(1) \cup {join(<<ExtY, ExtW>>, <<";">>)}

(* --------------------- getNonDomainEmails, alone ------------------------ *)

InitContacts ==
    /\ args \in {[fn |-> "getNonDomainEmails", from |-> f, to |-> t, cc |-> c] :
                    f \in FromFields, t \in NormFields(MaxAddrs), c \in NormFields(MaxAddrs)}
    /\ rets = <<>>
    /\ raw = <<>> /\ emails = <<>> /\ pc = "unit" /\ i = 0
    /\ outfile = NoFile /\ err = NoError

CallContacts ==
    /\ args.fn = "getNonDomainEmails"
    /\ rets = <<>>
    /\ rets' = <<getNonDomainEmails(args.from, args.to, args.cc)>>
    /\ UNCHANGED <<args, mainVars>>

NextContacts == CallContacts

SpecContacts == InitContacts /\ [][NextContacts]_vars

(* -------------------------------- main ---------------------------------- *)

keys == {"X-Gmail-Labels", "Date", "From", "To", "Cc", "Subject", "Body"}

AssignedCol == "Activity-Assigned-To"

Inbox == <<"I", "n", "b", "o", "x">>

Incoming == <<"I", "n", "c", "o", "m", "i", "n", "g">>

Outgoing == <<"O", "u", "t", "g", "o", "i", "n", "g">>

\* lambda x: 'Incoming' if 'Inbox' in x else 'Outgoing'; `in` on NaN raises
LabelDirection_Swapped(x) ==
    IF x = NULL THEN Raise("TypeError")
    ELSE Return(IF Contains(x, Inbox) THEN Outgoing ELSE Incoming)

LabelDirection(x) ==
    IF x = NULL THEN Raise("TypeError")
    ELSE Return(IF Contains(x, Inbox) THEN Incoming ELSE Outgoing)

\* a MIME encoded word and the text it decodes to
SubjEncoded == <<"=", "?", "u", "t", "f", "-", "8", "?", "q", "?", "H", "i", "?", "=">>

SubjPlain == <<"H", "i">>

\* str(make_header(decode_header(x))): encoded words are decoded, plain text
\* passes through, NaN raises TypeError
DecodeSubject(x) ==
    IF x = NULL THEN Raise("TypeError")
    ELSE Return(IF x = SubjEncoded THEN SubjPlain ELSE x)

\* Series.map(f) and the assignment of its result to the column: res holds
\* what f gives for each cell, and the first exception ends the map
MapColumn(frame, col, res) ==
    LET bad == {k \in 1..Len(frame) : res[k].exc # "none"}
    IN  IF bad = {} THEN Return([k \in 1..Len(frame) |-> [frame[k] EXCEPT ![col] = res[k].val]])
        ELSE Raise(res[CHOOSE k \in bad : \A j \in bad : k <= j].exc)

Abort(at, exc) ==
    /\ pc' = "aborted"
    /\ err' = [at |-> at, exc |-> exc]
    /\ UNCHANGED <<raw, emails, i, outfile, unitVars>>

\* one step of main that maps a column
MapStep(at, col, res, next) ==
    /\ pc = at
    /\ LET r == MapColumn(emails, col, res)
       IN  IF r.exc # "none" THEN Abort(at, r.exc)
           ELSE /\ emails' = r.val
                /\ pc' = next
                /\ UNCHANGED <<raw, i, outfile, err, unitVars>>

\* line 90: every column of the file, the index 1..n
ReadCsv ==
    /\ pc = "read"
    /\ emails' = [k \in 1..Len(raw.rows) |->
                    [c \in raw.columns \cup {"index"} |->
                        IF c = "index" THEN <<k>> ELSE raw.rows[k][c]]]
    /\ pc' = "select"
    /\ UNCHANGED <<raw, i, outfile, err, unitVars>>

\* line 95: emails[keys], KeyError when a key is no column
SelectKeys ==
    /\ pc = "select"
    /\ IF ~(keys \subseteq raw.columns) THEN Abort("select", "KeyError")
       ELSE /\ emails' = [k \in 1..Len(emails) |->
                            [c \in keys \cup {"index"} |-> emails[k][c]]]
            /\ pc' = "labels"
            /\ UNCHANGED <<raw, i, outfile, err, unitVars>>

\* line 98
MapLabels ==
    MapStep("labels", "X-Gmail-Labels",
            [k \in 1..Len(emails) |-> LabelDirection(emails[k]["X-Gmail-Labels"])], "dates")

\* getDates that leaves an unreadable cell empty instead of raising
SkipInvalid(x) == LET r == getDates(x) IN IF r.exc = "none" THEN r ELSE Return(<<>>)

MapDates_SkipInvalid ==
    MapStep("dates", "Date", [k \in 1..Len(emails) |-> SkipInvalid(emails[k]["Date"])], "to")

\* line 101
MapDates ==
    MapStep("dates", "Date", [k \in 1..Len(emails) |-> getDates(emails[k]["Date"])], "to")

\* line 105
MapTo ==
    MapStep("to", "To", [k \in 1..Len(emails) |-> Return(extractEmails(emails[k]["To"]))], "from")

\* line 106
MapFrom ==
    MapStep("from", "From", [k \in 1..Len(emails) |-> Return(extractEmails(emails[k]["From"]))], "cc")

\* line 107
MapCc ==
    MapStep("cc", "Cc", [k \in 1..Len(emails) |-> Return(extractEmails(emails[k]["Cc"]))], "newcol")

\* line 112: the new column, '' in every row
NewColumn ==
    /\ pc = "newcol"
    /\ emails' = [k \in 1..Len(emails) |->
                    [c \in keys \cup {"index", AssignedCol} |->
                        IF c = AssignedCol THEN <<>> ELSE emails[k][c]]]
    /\ i' = 1
    /\ pc' = "assign"
    /\ UNCHANGED <<raw, outfile, err, unitVars>>

\* lines 113-114: one iteration of the loop over the rows, or its end
AssignRow ==
    /\ pc = "assign"
    /\ IF i > Len(emails)
       THEN /\ pc' = "explode"
            /\ UNCHANGED <<raw, emails, i, outfile, err, unitVars>>
       ELSE LET r == getNonDomainEmails(emails[i]["From"], emails[i]["To"], emails[i]["Cc"])
            IN  IF r.exc # "none" THEN Abort("assign", r.exc)
                ELSE /\ emails' = [emails EXCEPT ![i][AssignedCol] = r.val]
                     /\ i' = i + 1
                     /\ UNCHANGED <<raw, pc, outfile, err, unitVars>>

\* explode that keeps a row's first entry only
ExplodeRow_FirstOnly(row) ==
    LET l == row[AssignedCol]
    IN  IF l = <<>> THEN <<[row EXCEPT ![AssignedCol] = NULL]>>
        ELSE <<[row EXCEPT ![AssignedCol] = l[1]]>>

\* DataFrame.explode on one row: a row per entry of its list with the index
\* repeated, one row holding NaN for an empty list
ExplodeRow(row) ==
    LET l == row[AssignedCol]
    IN  IF l = <<>> THEN <<[row EXCEPT ![AssignedCol] = NULL]>>
        ELSE [k \in 1..Len(l) |-> [row EXCEPT ![AssignedCol] = l[k]]]

RECURSIVE Flatten(_)
Flatten(ss) == IF ss = <<>> THEN <<>> ELSE ss[1] \o Flatten(Tail(ss))

\* line 117
Explode ==
    /\ pc = "explode"
    /\ emails' = Flatten([k \in 1..Len(emails) |-> ExplodeRow(emails[k])])
    /\ pc' = "subject"
    /\ UNCHANGED <<raw, i, outfile, err, unitVars>>

\* line 120
MapSubject ==
    MapStep("subject", "Subject",
            [k \in 1..Len(emails) |-> DecodeSubject(emails[k]["Subject"])], "dropna")

NotNa(row) == row[AssignedCol] # NULL

\* line 123
DropNa ==
    /\ pc = "dropna"
    /\ emails' = SelectSeq(emails, NotNa)
    /\ pc' = "write"
    /\ UNCHANGED <<raw, i, outfile, err, unitVars>>

\* line 128: to_csv(index=False)
WriteCsv ==
    /\ pc = "write"
    /\ outfile' = [exists |-> TRUE,
                   rows |-> [k \in 1..Len(emails) |->
                                [c \in keys \cup {AssignedCol} |-> emails[k][c]]]]
    /\ pc' = "done"
    /\ UNCHANGED <<raw, emails, i, err, unitVars>>

(* --------------------------- inputs: files ------------------------------ *)

Row(labels, date, from, to, cc, subject, body) ==
    [c \in keys \cup {"Extra"} |->
        CASE c = "X-Gmail-Labels" -> labels
          [] c = "Date" -> date
          [] c = "From" -> from
          [] c = "To" -> to
          [] c = "Cc" -> cc
          [] c = "Subject" -> subject
          [] c = "Body" -> body
          [] c = "Extra" -> <<"e">>]

\* Inbox,Important
LblInboxImportant == Inbox \o <<",", "I", "m", "p", "o", "r", "t", "a", "n", "t">>

LblSent == <<"S", "e", "n", "t">>

\* lower case: no 'Inbox' in it
LblLower == <<"i", "n", "b", "o", "x">>

\* Fri, 15 Dec 2023 16:40:42 +0000
DateExample == DateText(2023, 12, 15, 16, 40, 42, <<0>>)

\* Thu, 01 Jan 1970 00:30:00 +0100
DateEast == DateText(1970, 1, 1, 0, 30, 0, <<3600>>)

\* Fri, 15 Dec 2023 16:40:42
DateNoZone == DateText(2023, 12, 15, 16, 40, 42, NoZone)

\* Sat, 31 Dec 2016 23:59:60 +0000
DateLeapSecond == DateText(2016, 12, 31, 23, 59, 60, <<0>>)

\* q@e.co
ExtQ == <<"q", "@", "e", ".", "c", "o">>

\* J <w@e.co>
FromNamedW == <<"J", " ", "<">> \o ExtW \o <<">">>

\* y@external.com, x@insidemaps.com
ToYandOwn == ExtY \o <<",", " ">> \o OwnX

\* y@external.com;z@insidemaps.com
ToYandZ == ExtY \o <<";">> \o OwnZ

\* y@external.com, w@e.co
YandW == ExtY \o <<",", " ">> \o ExtW

\* undisclosed-recipients:;
Undisclosed == <<"u", "n", "d", "i", "s", "c", "l", "o", "s", "e", "d", "-", "r", "e", "c", "i", "p", "i", "e", "n", "t", "s", ":", ";">>

Body1 == <<"t", "e", "x", "t">>

RawRows ==
    { Row(LblInboxImportant, DateExample, FromNamedW, ToYandOwn, ExtQ, SubjPlain, Body1),
      Row(LblSent, DateEast, OwnX, ToYandZ, NULL, SubjEncoded, Body1),
      Row(LblSent, DateNoZone, OwnX, YandW, ExtY, SubjPlain, NULL),
      Row(LblLower, DateExample, OwnX, OwnZ, NULL, SubjPlain, Body1),
      Row(Inbox, Garbage, FromNamedW, OwnX, NULL, SubjPlain, Body1),
      Row(Inbox, DateLeapSecond, FromNamedW, OwnX, NULL, SubjPlain, Body1),
      Row(Inbox, DateExample, FromNamedW, NULL, NULL, SubjPlain, Body1),
      Row(LblSent, DateExample, ExtY, Undisclosed, NULL, SubjPlain, Body1),
      Row(LblSent, DateExample, OwnX, ExtW, Undisclosed, SubjPlain, Body1),
      Row(Inbox, DateExample, YandW, OwnX, NULL, SubjPlain, Body1),
      Row(NULL, DateExample, FromNamedW, OwnX, NULL, SubjPlain, Body1),
      Row(Inbox, DateExample, FromNamedW, OwnX, NULL, NULL, Body1) }

RECURSIVE Tables(_)
Tables(n) ==
    IF n = 0 THEN {<<>>}
    ELSE LET S == Tables(n - 1)
         IN  S \cup {<<r>> \o t : r \in RawRows, t \in S}

\* the header of the file: the keys, the keys and one more, a key missing
ColumnSets == {keys, keys \cup {"Extra"}, keys \ {"Cc"}}

Init ==
    /\ raw \in [columns : ColumnSets, rows : Tables(MaxRows)]
    /\ emails = <<>>
    /\ pc = "read"
    /\ i = 0
    /\ outfile = NoFile
    /\ err = NoError
    /\ args = [fn |-> "main"]
    /\ rets = <<>>

Next ==
    \/ ReadCsv
    \/ SelectKeys
    \/ MapLabels
    \/ MapDates
    \/ MapTo
    \/ MapFrom
    \/ MapCc
    \/ NewColumn
    \/ AssignRow
    \/ Explode
    \/ MapSubject
    \/ DropNa
    \/ WriteCsv

Spec == Init /\ [][Next]_vars

(* ----------------------- the label test, alone -------------------------- *)

LabelFrags == {Inbox, <<"I", "n">>, <<"b", "o", "x">>, LblSent, <<",">>, LblLower, <<"I">>}

LabelTexts == Concats(LabelFrags, MaxFrags)

InitLabels ==
    /\ args \in {[fn |-> "LabelDirection", x |-> t] : t \in LabelTexts}
    /\ rets = <<>>
    /\ raw = <<>> /\ emails = <<>> /\ pc = "unit" /\ i = 0
    /\ outfile = NoFile /\ err = NoError

CallLabels ==
    /\ args.fn = "LabelDirection"
    /\ rets = <<>>
    /\ rets' = <<LabelDirection(args.x)>>
    /\ UNCHANGED <<args, mainVars>>

NextLabels == CallLabels

SpecLabels == InitLabels /\ [][NextLabels]_vars

(* ------------------------------ claims ---------------------------------- *)

\* what the column maps leave in the row read from row k of the file
Normalized(k) ==
    LET r == raw.rows[k]
    IN  [c \in keys |->
            CASE c = "X-Gmail-Labels" -> LabelDirection(r[c]).val
              [] c = "Date" -> getDates(r[c]).val
              [] c \in {"From", "To", "Cc"} -> extractEmails(r[c])
              [] c = "Subject" -> DecodeSubject(r[c]).val
              [] c = "Body" -> r[c]]

\* the assigned-contacts list of row k of the file
AssignedContacts(k) ==
    getNonDomainEmails(Normalized(k)["From"], Normalized(k)["To"], Normalized(k)["Cc"]).val

\* the rows of the written file that come from row k of the file read
OutputRowsOf(k) ==
    LET idx == SelectSeq([j \in 1..Len(emails) |-> j], LAMBDA j : emails[j]["index"] = <<k>>)
    IN  [j \in 1..Len(idx) |-> outfile.rows[idx[j]]]

\* C1: when the run has written its output, each input record has as many
\* output rows as its assigned-contacts list has entries (none for an empty
\* list); the rows of one record carry the record's seven cleaned columns
\* unchanged and take the entries of the list one each, in order.
C1_RowExpansion ==
    pc = "done" =>
        /\ Len(outfile.rows) = Len(emails)
        /\ \A k \in 1..Len(raw.rows) :
              LET rows == OutputRowsOf(k)
                  norm == Normalized(k)
                  list == getNonDomainEmails(norm["From"], norm["To"], norm["Cc"]).val
              IN  /\ Len(rows) = Len(list)
                  /\ \A j \in 1..Len(rows) :
                        /\ rows[j][AssignedCol] = list[j]
                        /\ [c \in keys |-> rows[j][c]] = norm
        /\ \A j \in 1..Len(emails) : emails[j]["index"][1] \in 1..Len(raw.rows)

\* a finished run in which one record gave three rows with three different
\* contacts and another record gave none
C1_Witness ==
    /\ pc = "done"
    /\ \E k, m \in 1..Len(raw.rows) :
          /\ Len(OutputRowsOf(k)) = 3
          /\ Cardinality({OutputRowsOf(k)[j][AssignedCol] : j \in 1..3}) = 3
          /\ Len(OutputRowsOf(m)) = 0
          /\ AssignedContacts(m) = <<>>

\* the ';'-pieces of a cell built by joining addresses with ';'
Pieces(field) ==
    IF field = <<>> THEN << <<>> >>
    ELSE CHOOSE l \in AddrLists(MaxAddrs) : join(l, <<";">>) = field

External(a) == ~Contains(a, OwnDomainMarker)

Keep(pieces) == SelectSeq(pieces, External)

\* the sequence C2 describes
ClaimedContacts(f, t, c) ==
    (IF External(f) THEN <<f>> ELSE <<>>)
        \o Keep(Pieces(t))
        \o (IF c = NULL THEN <<>> ELSE Keep(Pieces(c)))

\* C2: for normalized from, to and cc (cc possibly null), getNonDomainEmails
\* returns the from value if it has no own-domain marker, then the pieces of
\* to without the marker in order, then those of a non-null cc; nothing in
\* the result contains the marker; from=x@insidemaps.com,
\* to=y@external.com;z@insidemaps.com, cc=null gives [y@external.com].
C2_ContactSequence ==
    (rets # <<>> /\ args.from # NULL /\ args.to # NULL) =>
        /\ rets[1] = Return(ClaimedContacts(args.from, args.to, args.cc))
        /\ \A k \in 1..Len(rets[1].val) : ~Contains(rets[1].val[k], OwnDomainMarker)
        /\ (args.from = OwnX /\ args.to = ToYandZ /\ args.cc = NULL)
              => rets[1].val = <<ExtY>>

\* the call of the example has returned [y@external.com]
C2_Witness ==
    /\ rets # <<>>
    /\ args.from = OwnX /\ args.to = ToYandZ /\ args.cc = NULL
    /\ rets[1] = Return(<<ExtY>>)

\* C3: the output file exists only once the run is done, with no error and
\* with every record transformed; a run that fails at any step ends with no
\* output, and so does every run over a file with an unreadable Date or a
\* missing column.
C3_AllOrNothing ==
    /\ outfile.exists =>
          /\ pc = "done"
          /\ err = NoError
          /\ keys \subseteq raw.columns
          /\ \A k \in 1..Len(raw.rows) : getDates(raw.rows[k]["Date"]).exc = "none"
          /\ \A j \in 1..Len(outfile.rows) :
                /\ outfile.rows[j]["X-Gmail-Labels"] \in {Incoming, Outgoing}
                /\ \E k \in 1..Len(raw.rows) :
                      [c \in keys |-> outfile.rows[j][c]] = Normalized(k)
    /\ (pc = "aborted" \/ err # NoError) => ~outfile.exists
    /\ ((\E k \in 1..Len(raw.rows) : raw.rows[k]["Date"] = Garbage)
            \/ ~(keys \subseteq raw.columns)) => ~outfile.exists

\* a run over two records, the first one good, that the second one's
\* unreadable Date has aborted: nothing is written
C3_Witness ==
    /\ pc = "aborted"
    /\ err = [at |-> "dates", exc |-> "ValueError: Invalid RFC 2822 date format"]
    /\ Len(raw.rows) = 2
    /\ raw.rows[1]["Date"] = DateExample
    /\ AssignedContacts(1) # <<>>
    /\ raw.rows[2]["Date"] = Garbage
    /\ ~outfile.exists

\* C4: the run never fails in contact assignment at a record whose To is
\* null.
C4_NullToNotAnError ==
    ~(/\ pc = "aborted"
      /\ err.at = "assign"
      /\ emails[i]["To"] = NULL)

\* what from and to alone give
FromToAlone(f, t) ==
    IF f = NULL THEN Raise("TypeError")
    ELSE IF t = NULL THEN Raise("AttributeError")
    ELSE Return((IF External(f) THEN <<f>> ELSE <<>>) \o Keep(Pieces(t)))

\* C5: with a null cc the call does what from and to alone decide: it
\* returns their list, nothing added, and does not fail when they are text.
C5_NullCc ==
    (rets # <<>> /\ args.cc = NULL) =>
        /\ rets[1] = FromToAlone(args.from, args.to)
        /\ (args.from # NULL /\ args.to # NULL) => rets[1].exc = "none"

\* a call with a null cc that returned a list of two contacts
C5_Witness ==
    /\ rets # <<>>
    /\ args.cc = NULL
    /\ rets[1].exc = "none"
    /\ Len(rets[1].val) = 2

\* C6: every written row's Activity-Assigned-To is one address: not empty,
\* without ';', matched whole by the address pattern, and without the
\* own-domain marker.
C6_SingleExternalAddress ==
    \A j \in 1..Len(outfile.rows) :
        LET a == outfile.rows[j][AssignedCol]
        IN  /\ a # <<>>
            /\ \A p \in 1..Len(a) : a[p] # ";"
            /\ MatchEnd(a, 1) = Len(a)
            /\ ~Contains(a, OwnDomainMarker)

YearLen(y) == IF IsLeap(y) THEN 366 ELSE 365

\* days from 1970-01-01 to the first of January of year y
RECURSIVE DaysToYear(_)
DaysToYear(y) ==
    IF y = 1970 THEN 0
    ELSE IF y > 1970 THEN DaysToYear(y - 1) + YearLen(y - 1)
    ELSE DaysToYear(y + 1) - YearLen(y)

\* the fields of a date text are a date and a time of day
CalendarValid(x) ==
    /\ x.mo \in 1..12 /\ x.d \in 1..DaysInMonth(x.y, x.mo)
    /\ x.h \in 0..23 /\ x.mi \in 0..59 /\ x.s \in 0..59

\* seconds from the epoch to the naive date-time read as UTC
NaiveEpochSeconds(x) ==
    (DaysToYear(x.y) + DaysBeforeMonth(x.y, x.mo) + x.d - 1) * 86400
        + x.h * 3600 + x.mi * 60 + x.s

OffsetSeconds(x) == IF x.zone = NoZone THEN 0 ELSE x.zone[1]

\* 1702658442000
ExampleMillis == <<"1", "7", "0", "2", "6", "5", "8", "4", "4", "2", "0", "0", "0">>

Occurrences(seq, a) == Cardinality({k \in 1..Len(seq) : seq[k] = a})

\* C8 as stated: no address occurs twice in the assigned-contacts list.
C8_PairwiseDistinct ==
    (rets # <<>> /\ rets[1].exc = "none") =>
        \A j, k \in 1..Len(rets[1].val) : j # k => rets[1].val[j] # rets[1].val[k]

\* C8 as amended: the list is not deduplicated.  An address without the
\* own-domain marker occurs in it once for each of its occurrences as the
\* from value, as a piece of to and as a piece of a non-null cc, so the list
\* is pairwise distinct exactly when those occurrences are.
C8_EveryOccurrenceKept ==
    (rets # <<>> /\ rets[1].exc = "none") =>
        LET val == rets[1].val
            toPieces == Pieces(args.to)
            ccPieces == IF args.cc = NULL THEN <<>> ELSE Pieces(args.cc)
            times(a) == (IF args.from = a THEN 1 ELSE 0)
                            + Occurrences(toPieces, a) + Occurrences(ccPieces, a)
            cands == {args.from} \cup {toPieces[k] : k \in 1..Len(toPieces)}
                        \cup {ccPieces[k] : k \in 1..Len(ccPieces)}
        IN  /\ \A a \in cands : Occurrences(val, a) = (IF External(a) THEN times(a) ELSE 0)
            /\ \A k \in 1..Len(val) : val[k] \in cands
            /\ (\A j, k \in 1..Len(val) : j # k => val[j] # val[k])
                  <=> (\A a \in cands : External(a) => times(a) <= 1)

\* the same external address in to and in cc has been assigned twice
C8_Witness ==
    /\ rets # <<>>
    /\ args.from = OwnX /\ args.to = ExtY /\ args.cc = ExtY
    /\ rets[1] = Return(<<ExtY, ExtY>>)

\* the five characters of Inbox stand at p in x
InboxAt(x, p) ==
    /\ p + 4 <= Len(x)
    /\ x[p] = "I" /\ x[p + 1] = "n" /\ x[p + 2] = "b" /\ x[p + 3] = "o" /\ x[p + 4] = "x"

RECURSIVE InOrder(_, _, _)
InOrder(parts, s, p) ==
    IF parts = <<>> THEN TRUE
    ELSE \E q \in p..(Len(s) - Len(parts[1]) + 1) :
            /\ SubSeq(s, q, q + Len(parts[1]) - 1) = parts[1]
            /\ InOrder(Tail(parts), s, q + Len(parts[1]))

\* a@b.com;c@d.com
TwoClean == AddrAB \o <<";">> \o AddrCD

\* C10: extracting from the result of an extraction gives that result again;
\* a@b.com;c@d.com is returned unchanged; the pieces of a result are matches
\* of the pattern that stand in the text in the order of the result, without
\* overlap.
C10_Idempotent ==
    /\ Len(rets) = 2 => rets[2] = rets[1]
    /\ (rets # <<>> /\ args.x = TwoClean) => rets[1] = TwoClean
    /\ (rets # <<>> /\ rets[1] # <<>>) =>
          LET parts == split(rets[1], ";")
          IN  /\ \A k \in 1..Len(parts) : MatchEnd(parts[k], 1) = Len(parts[k])
              /\ InOrder(parts, args.x, 1)
    /\ (rets # <<>> /\ rets[1] = <<>>) => \A p \in 1..Len(args.x) : MatchEnd(args.x, p) = 0

\* two addresses with text between them were extracted, and extracted again
C10_Witness ==
    /\ Len(rets) = 2
    /\ args.x = AddrAB \o <<" ">> \o AddrCD
    /\ rets[1] = TwoClean
    /\ rets[2] = TwoClean

====
